---------------------------- MODULE Spec2Model ----------------------------
(***************************************************************************)
(* The earthquake dashboard of app.py: one static table, df_earthquakes,   *)
(* four controls and four callbacks that filter and aggregate the table.   *)
(*                                                                         *)
(* A DataFrame is a record [obj, columns, rows]: obj is the identity of    *)
(* the Python object holding the data, columns the column labels and rows  *)
(* the sequence of rows, each carrying its index label.  A magnitude is an *)
(* integer number of tenths (70 is 7.0); a timestamp is [year, month].     *)
(***************************************************************************)
EXTENDS Integers, Sequences, FiniteSets, TLC

VARIABLES
    df_earthquakes,      \* the module-level table, app.py:14-17
    loaded,              \* history: the table as it was after loading
    countries_dropdown,  \* value of the "countries-dropdown" control
    years_slider,        \* value of the "years-slider" control, <<lo, hi>>
    depth_checklist,     \* value of the "depth-checklist" control, a list
    magnitude_slider,    \* value of the "magnitude-slider" control
    pending,             \* callbacks triggered and not yet run
    figures              \* per callback: the figure(s) it last returned

vars == <<df_earthquakes, loaded, countries_dropdown, years_slider,
          depth_checklist, magnitude_slider, pending, figures>>

---------------------------------------------------------------------------
\* Bounds of the model.

\* rows of the catalogue a table of QuerySpec is drawn from
NumRows == 7
\* rows of the catalogue the table of Spec holds
DashRows == 2
\* last year the model's slider and data reach (the program's is 2023)
LastYear == 2002

\* Program constants.
FirstYear == 2001
DefaultMagnitude == 70
MagnitudeStep == 5
HeadCount == 5

ALL_COUNTRIES == "All Countries"
NaN == "NaN"
NoFigure == [not_run |-> TRUE]

\* an exception raised instead of a value returned
Raise(name) == [error |-> name]
Raised(x) == DOMAIN x = {"error"}

\* Country names in Python's str order, which groupby(sort=True) and
\* sorted() follow.
CountryNames == <<"Chile", "Fiji", "Indonesia", "Japan", "Mexico", "Peru">>

\* Depth labels in Python's str order.
LabelNames == <<"High", "Low", "Mid">>

Labels == {"Low", "Mid", "High"}

Range(s) == {s[i] : i \in DOMAIN s}

Min(a, b) == IF a <= b THEN a ELSE b

---------------------------------------------------------------------------
\* The data.

SourceColumns ==
    <<"date_time", "country", "latitude", "longitude", "magnitude",
      "depth", "depth_label">>

Quake(country, year, month, lat, lon, mag, depth, label) ==
    [date_time |-> [year |-> year, month |-> month], country |-> country,
     latitude |-> lat, longitude |-> lon, magnitude |-> mag,
     depth |-> depth, depth_label |-> label]

\* Rows of the kind the csv file holds.  Years past LastYear are folded into the
\* modelled range by CatalogueRow.
CatalogueBase ==
    << Quake("Peru",      2001,  6, -16, -73, 78,  33, "Low"),
       Quake("Japan",     2002,  3,  38, 142, 70, 120, "Mid"),
       Quake("Chile",     2001,  7, -20, -70, 65, 310, "High"),
       Quake("Peru",      2002,  9, -13, -76, 70,  40, "Low"),
       Quake("Mexico",    2001,  1,  18, -98, 70,  20, "Low"),
       Quake("Indonesia", 2002, 12,   3,  95, 65, 400, "High"),
       Quake("Fiji",      2001,  8, -18, 178, 70, 150, "Mid"),
       Quake("Chile",     2003,  2, -36, -72, 78,  35, "Low"),
       Quake("Japan",     2003,  4,  36, 140, 65,  10, "Low") >>

CatalogueRow(i) ==
    LET q == CatalogueBase[((i - 1) % Len(CatalogueBase)) + 1]
    IN  [q EXCEPT !.date_time.year = Min(q.date_time.year, LastYear)]

\* read_csv gives the rows a RangeIndex 0 .. n-1 (app.py:14).
RangeIndexed(qs) ==
    [i \in DOMAIN qs |->
        [f \in DOMAIN qs[i] \cup {"index"} |->
            IF f = "index" THEN i - 1 ELSE qs[i][f]]]

RECURSIVE SubSeqs(_)
\* every sub-sequence (rows kept in order) of the first n catalogue rows
SubSeqs(n) ==
    IF n = 0 THEN {<<>>}
    ELSE LET shorter == SubSeqs(n - 1)
         IN  shorter \cup {Append(s, CatalogueRow(n)) : s \in shorter}

read_csv(qs) ==
    [obj |-> "df_earthquakes", columns |-> SourceColumns,
     rows |-> RangeIndexed(qs)]

Tables(n) == {read_csv(qs) : qs \in SubSeqs(n) \ {<<>>}}

---------------------------------------------------------------------------
\* pandas operations, as app.py uses them.

\* A Series is a function from index labels to values.

IndexOf(df) == {df.rows[i].index : i \in DOMAIN df.rows}

\* df[name], a column as a Series
Column(df, name) ==
    [k \in IndexOf(df) |->
        (CHOOSE r \in Range(df.rows) : r.index = k)[name]]

\* Series.dt.year
dt_year(series) == [k \in DOMAIN series |-> series[k].year]

\* between with the right end left out
between_open(series, left, right) ==
    [k \in DOMAIN series |-> left <= series[k] /\ series[k] < right]

\* Series.between(left, right), inclusive on both sides
between(series, left, right) ==
    [k \in DOMAIN series |-> left <= series[k] /\ series[k] <= right]

\* series == value
eq(series, value) == [k \in DOMAIN series |-> series[k] = value]

\* series >= value
ge(series, value) == [k \in DOMAIN series |-> series[k] >= value]

\* mask & other, two boolean Series over the same index
and(mask, other) ==
    [k \in DOMAIN mask \cap DOMAIN other |-> mask[k] /\ other[k]]

\* Series.isin(values)
isin(series, values) ==
    [k \in DOMAIN series |-> series[k] \in Range(values)]

\* df[mask] taking the mask by position: row i is kept when the mask's i-th
\* value (the one of label i-1 of a RangeIndex) is true
BoolIndex_positional(df, mask) ==
    [obj |-> "new", columns |-> df.columns,
     rows |-> SelectSeq(df.rows, LAMBDA r :
                LET i == CHOOSE i \in DOMAIN df.rows : df.rows[i] = r
                IN  (i - 1) \in DOMAIN mask /\ mask[i - 1])]

\* df[mask] returning a view: the result is the object df is
BoolIndex_view(df, mask) ==
    [obj |-> df.obj, columns |-> df.columns,
     rows |-> SelectSeq(df.rows, LAMBDA r : mask[r.index])]

\* df[mask]: the mask is aligned to df's index by label; a label of df the
\* mask lacks raises IndexingError.  The result is a new object.
BoolIndex(df, mask) ==
    IF ~(IndexOf(df) \subseteq DOMAIN mask)
    THEN Raise("IndexingError")
    ELSE [obj |-> "new", columns |-> df.columns,
          rows |-> SelectSeq(df.rows, LAMBDA r : mask[r.index])]

\* df.copy()
copy(df) == [df EXCEPT !.obj = "new"]

\* df[name] = series: each row gets the value of its label, NaN when the
\* series has none
SetColumn(df, name, series) ==
    [df EXCEPT
        !.columns = IF name \in Range(@) THEN @ ELSE Append(@, name),
        !.rows = [i \in DOMAIN @ |->
                    [f \in DOMAIN @[i] \cup {name} |->
                        IF f # name THEN @[i][f]
                        ELSE IF @[i].index \in DOMAIN series
                        THEN series[@[i].index] ELSE NaN]]]

\* DataFrame.head(n)
head(s, n) == SubSeq(s, 1, Min(n, Len(s)))

YearKeys == [i \in 1 .. (LastYear - FirstYear + 1) |-> FirstYear + i - 1]

\* every candidate key of a grouping by the columns by, in sorted order
SortedKeys(by) ==
    IF by = <<"country">>
    THEN [n \in DOMAIN CountryNames |-> <<CountryNames[n]>>]
    ELSE [n \in 1 .. (Len(YearKeys) * Len(LabelNames)) |->
            << YearKeys[((n - 1) \div Len(LabelNames)) + 1],
               LabelNames[((n - 1) % Len(LabelNames)) + 1] >>]

\* df.groupby(by).size().reset_index(name="count"): one entry per key
\* observed in df, in sorted key order
GroupBySize(df, by) ==
    LET key(r) == [n \in DOMAIN by |-> r[by[n]]]
        observed == SelectSeq(SortedKeys(by), LAMBDA k :
                        \E i \in DOMAIN df.rows : key(df.rows[i]) = k)
    IN  [n \in DOMAIN observed |->
            [key |-> observed[n],
             count |-> Cardinality({i \in DOMAIN df.rows :
                                      key(df.rows[i]) = observed[n]})]]

\* a pivot that fills the missing cells with zero
pivot_zero_filled(long) ==
    LET years == {long[n].key[1] : n \in DOMAIN long}
        labels == {long[n].key[2] : n \in DOMAIN long}
    IN  [index |-> SelectSeq(YearKeys, LAMBDA y : y \in years),
         columns |-> SelectSeq(LabelNames, LAMBDA l : l \in labels),
         values |-> [c \in years \X labels |->
                       IF \E n \in DOMAIN long : long[n].key = c
                       THEN (CHOOSE e \in Range(long) : e.key = c).count
                       ELSE 0]]

\* long.pivot(index="year", columns="depth_label", values="count"): the
\* index and the columns are the sorted observed values.  values holds the
\* cells that have a number; a <<year, label>> pair outside its domain is a
\* missing cell (NaN).
pivot(long) ==
    LET years == {long[n].key[1] : n \in DOMAIN long}
        labels == {long[n].key[2] : n \in DOMAIN long}
    IN  [index |-> SelectSeq(YearKeys, LAMBDA y : y \in years),
         columns |-> SelectSeq(LabelNames, LAMBDA l : l \in labels),
         values |-> [c \in {long[n].key : n \in DOMAIN long} |->
                       (CHOOSE e \in Range(long) : e.key = c).count]]

\* the column selection keeping the cells of every column
SelectColumns_all(pv, cols) ==
    [index |-> pv.index, columns |-> cols, values |-> pv.values]

\* df[cols] on the pivoted table: a label that is no column raises KeyError
SelectColumns(pv, cols) ==
    IF ~(Range(cols) \subseteq Range(pv.columns))
    THEN Raise("KeyError")
    ELSE [index |-> pv.index, columns |-> cols,
          values |-> [c \in {d \in DOMAIN pv.values : d[2] \in Range(cols)}
                        |-> pv.values[c]]]

\* DataFrame.empty: some axis has length 0
empty(pv) == Len(pv.index) = 0 \/ Len(pv.columns) = 0

---------------------------------------------------------------------------
\* The four callbacks.

\* the f-string titles, kept as their parts
MapTitle(selected_country, years_range) ==
    <<"Earthquakes in", selected_country, "from", years_range[1],
      "to", years_range[2]>>

BarTitle(selected_country, years_range) ==
    <<"Number of earthquakes according to the depth label in",
      selected_country, "from", years_range[1], "to", years_range[2]>>

ScatterTitle(selected_country, years_range) ==
    <<"Distribution of earthquakes according to depth label in",
      selected_country, "from", years_range[1], "to", years_range[2],
      "per depth label">>

PieTitle(years_range, selected_magnitude) ==
    <<"Top 5 earthquakes from", years_range[1], "to", years_range[2],
      "with mag >=", selected_magnitude>>

\* the boolean mask both branches of the country test build
CountryYearMask(df, selected_country, years_range) ==
    IF selected_country = ALL_COUNTRIES
    THEN between(dt_year(Column(df, "date_time")),
                 years_range[1], years_range[2])
    ELSE and(eq(Column(df, "country"), selected_country),
             between(dt_year(Column(df, "date_time")),
                     years_range[1], years_range[2]))

update_bubble_map(df, selected_country, years_range) ==
    LET filtered_df ==
            BoolIndex(df, CountryYearMask(df, selected_country, years_range))
    IN  IF Raised(filtered_df) THEN filtered_df
        ELSE [bubble_map |->
                 [title |-> MapTitle(selected_country, years_range),
                  data |-> filtered_df.rows],
              line_chart |->
                 [title |-> MapTitle(selected_country, years_range),
                  data |-> filtered_df.rows]]

desired_order == <<"Low", "Mid", "High">>

\* the comprehension without its test of the pivoted table's columns
selected_columns_unchecked(selected_depth, pv) ==
    SelectSeq(desired_order, LAMBDA col : col \in Range(selected_depth))

\* the list comprehension of app.py:244-248
selected_columns(selected_depth, pv) ==
    SelectSeq(desired_order, LAMBDA col :
        col \in Range(selected_depth) /\ col \in Range(pv.columns))

\* groupby(["year", "depth_label"]).size().reset_index(name="count")
counts_per_year_and_depth(df) ==
    GroupBySize(df, <<"year", "depth_label">>)

\* What update_bar_chart returns and what it leaves in df_earthquakes: the
\* assignment of the "year" column goes to the object filtered_df is.
update_bar_chart(df, selected_country, years_range, selected_depth) ==
    LET filtered_df ==
            BoolIndex(df, CountryYearMask(df, selected_country, years_range))
        year == dt_year(Column(filtered_df, "date_time"))
        with_year == SetColumn(filtered_df, "year", year)
        source ==
            IF Raised(filtered_df) \/ filtered_df.obj # df.obj THEN df
            ELSE SetColumn(df, "year", year)
        pivoted == pivot(counts_per_year_and_depth(with_year))
        columns == selected_columns(selected_depth, pivoted)
        df_rearranged_counts_per_year == SelectColumns(pivoted, columns)
    IN  [df_earthquakes |-> source,
         figure |->
            IF Raised(filtered_df) THEN filtered_df
            ELSE IF Raised(df_rearranged_counts_per_year)
            THEN df_rearranged_counts_per_year
            ELSE IF empty(df_rearranged_counts_per_year)
            THEN [title |-> BarTitle(selected_country, years_range),
                  x |-> <<>>, y |-> <<>>, values |-> <<>>]
            ELSE [title |-> BarTitle(selected_country, years_range),
                  x |-> df_rearranged_counts_per_year.index,
                  y |-> columns,
                  values |-> df_rearranged_counts_per_year.values]]

update_scatter_chart(df, selected_country, selected_depth, years_range) ==
    LET df_copy == copy(df)
        years_df ==
            BoolIndex(df_copy,
                      CountryYearMask(df_copy, selected_country, years_range))
        filtered_df ==
            IF Raised(years_df) THEN years_df
            ELSE BoolIndex(years_df,
                           isin(Column(df, "depth_label"), selected_depth))
    IN  IF Raised(filtered_df) THEN filtered_df
        ELSE [title |-> ScatterTitle(selected_country, years_range),
              data |-> filtered_df.rows]

\* the pie's filter with a strict comparison of the magnitude
pie_filter_strict(df, years_range, selected_magnitude) ==
    BoolIndex(df,
        and(between(dt_year(Column(df, "date_time")),
                    years_range[1], years_range[2]),
            [k \in IndexOf(df) |->
                Column(df, "magnitude")[k] > selected_magnitude]))

\* the pie's filter also keeping to the country the dropdown selects
pie_filter_country(df, years_range, selected_magnitude) ==
    BoolIndex(df,
        and(CountryYearMask(df, countries_dropdown, years_range),
            ge(Column(df, "magnitude"), selected_magnitude)))

\* the filter of app.py:318-321
pie_filter(df, years_range, selected_magnitude) ==
    BoolIndex(df,
        and(between(dt_year(Column(df, "date_time")),
                    years_range[1], years_range[2]),
            ge(Column(df, "magnitude"), selected_magnitude)))

\* groupby(["country"]).size().reset_index(name="count")
counts_per_country(df) ==
    LET sizes == GroupBySize(df, <<"country">>)
    IN  [n \in DOMAIN sizes |->
            [country |-> sizes[n].key[1], count |-> sizes[n].count]]

\* sort_values("count", ascending=False), ties in their former order
SortByCountDescending(groups) ==
    LET rank(i) ==
            1 + Cardinality({j \in DOMAIN groups :
                    \/ groups[j].count > groups[i].count
                    \/ groups[j].count = groups[i].count /\ j < i})
    IN  [k \in DOMAIN groups |->
            groups[CHOOSE i \in DOMAIN groups : rank(i) = k]]

\* the pie of the five countries with the highest counts
update_pie_chart_top(df, years_range, selected_magnitude) ==
    LET filtered_df == pie_filter(df, years_range, selected_magnitude)
    IN  IF Raised(filtered_df) THEN filtered_df
        ELSE [title |-> PieTitle(years_range, selected_magnitude),
              slices |-> head(SortByCountDescending(
                                counts_per_country(filtered_df)),
                              HeadCount)]

update_pie_chart(df, years_range, selected_magnitude) ==
    LET filtered_df == pie_filter(df, years_range, selected_magnitude)
    IN  IF Raised(filtered_df) THEN filtered_df
        ELSE [title |-> PieTitle(years_range, selected_magnitude),
              slices |-> head(counts_per_country(filtered_df), HeadCount)]

---------------------------------------------------------------------------
\* The controls and the wiring of the callbacks.

Callbacks ==
    {"update_bubble_map", "update_bar_chart", "update_scatter_chart",
     "update_pie_chart"}

\* the decorators with the dropdown also declared an input of the pie
Inputs_pie_country(cb) ==
    CASE cb = "update_bubble_map" -> {"countries-dropdown", "years-slider"}
      [] cb = "update_bar_chart" ->
            {"countries-dropdown", "years-slider", "depth-checklist"}
      [] cb = "update_scatter_chart" ->
            {"countries-dropdown", "depth-checklist", "years-slider"}
      [] cb = "update_pie_chart" ->
            {"countries-dropdown", "years-slider", "magnitude-slider"}

\* the Input(...) lines of each @app.callback decorator
Inputs(cb) ==
    CASE cb = "update_bubble_map" -> {"countries-dropdown", "years-slider"}
      [] cb = "update_bar_chart" ->
            {"countries-dropdown", "years-slider", "depth-checklist"}
      [] cb = "update_scatter_chart" ->
            {"countries-dropdown", "depth-checklist", "years-slider"}
      [] cb = "update_pie_chart" -> {"years-slider", "magnitude-slider"}

\* the callbacks a change of one control's value triggers
Triggered(control) == {cb \in Callbacks : control \in Inputs(cb)}

\* values of the dropdown's options
dropdown_options(df) ==
    {ALL_COUNTRIES} \cup {df.rows[i].country : i \in DOMAIN df.rows}

\* values a RangeSlider with min, max and step 1 can take
YearRanges ==
    {<<lo, hi>> : lo \in FirstYear .. LastYear, hi \in FirstYear .. LastYear}
        \ {<<lo, hi>> \in (FirstYear .. LastYear) \X (FirstYear .. LastYear) :
              lo > hi}

\* values a Checklist can take: the checked options in the order checked
DepthLists ==
    {l \in UNION {[1 .. n -> Labels] : n \in 0 .. 3} :
        \A i, j \in DOMAIN l : i # j => l[i] # l[j]}

\* checking an option appends it, unchecking removes it
Toggle(list, option) ==
    IF option \in Range(list)
    THEN SelectSeq(list, LAMBDA l : l # option)
    ELSE Append(list, option)

max_mag(df) ==
    CHOOSE m \in {df.rows[i].magnitude : i \in DOMAIN df.rows} :
        \A i \in DOMAIN df.rows : df.rows[i].magnitude <= m

min_mag(df) ==
    CHOOSE m \in {df.rows[i].magnitude : i \in DOMAIN df.rows} :
        \A i \in DOMAIN df.rows : df.rows[i].magnitude >= m

\* values the magnitude Slider can take: its initial value and the steps
\* from min_mag up to max_mag
MagnitudeValues(df) ==
    {DefaultMagnitude}
        \cup {m \in min_mag(df) .. max_mag(df) :
                (m - min_mag(df)) % MagnitudeStep = 0}

Layout ==
    /\ countries_dropdown = ALL_COUNTRIES
    /\ years_slider = <<FirstYear, LastYear>>
    /\ depth_checklist = <<"Low", "Mid", "High">>
    /\ magnitude_slider = DefaultMagnitude
    /\ figures = [cb \in Callbacks |-> NoFigure]

---------------------------------------------------------------------------
\* The dashboard: the user changes one control at a time, the callbacks
\* the change triggers run one by one, each on the controls' current values.

Init ==
    /\ df_earthquakes = read_csv([i \in 1 .. DashRows |-> CatalogueRow(i)])
    /\ loaded = df_earthquakes
    /\ Layout
    /\ pending = Callbacks

ChangeCountry ==
    /\ pending = {}
    /\ \E c \in dropdown_options(df_earthquakes) \ {countries_dropdown} :
            countries_dropdown' = c
    /\ pending' = Triggered("countries-dropdown")
    /\ UNCHANGED <<df_earthquakes, loaded, years_slider, depth_checklist,
                   magnitude_slider, figures>>

ChangeYears ==
    /\ pending = {}
    /\ \E yr \in YearRanges \ {years_slider} : years_slider' = yr
    /\ pending' = Triggered("years-slider")
    /\ UNCHANGED <<df_earthquakes, loaded, countries_dropdown,
                   depth_checklist, magnitude_slider, figures>>

ToggleDepth ==
    /\ pending = {}
    /\ \E l \in Labels : depth_checklist' = Toggle(depth_checklist, l)
    /\ pending' = Triggered("depth-checklist")
    /\ UNCHANGED <<df_earthquakes, loaded, countries_dropdown, years_slider,
                   magnitude_slider, figures>>

ChangeMagnitude ==
    /\ pending = {}
    /\ \E m \in MagnitudeValues(df_earthquakes) \ {magnitude_slider} :
            magnitude_slider' = m
    /\ pending' = Triggered("magnitude-slider")
    /\ UNCHANGED <<df_earthquakes, loaded, countries_dropdown, years_slider,
                   depth_checklist, figures>>

Run_update_bubble_map ==
    /\ "update_bubble_map" \in pending
    /\ pending' = pending \ {"update_bubble_map"}
    /\ figures' = [figures EXCEPT !["update_bubble_map"] =
            [args |-> <<countries_dropdown, years_slider>>,
             out |-> update_bubble_map(df_earthquakes, countries_dropdown,
                                       years_slider)]]
    /\ UNCHANGED <<df_earthquakes, loaded, countries_dropdown, years_slider,
                   depth_checklist, magnitude_slider>>

Run_update_bar_chart ==
    /\ "update_bar_chart" \in pending
    /\ pending' = pending \ {"update_bar_chart"}
    /\ LET ret == update_bar_chart(df_earthquakes, countries_dropdown,
                                   years_slider, depth_checklist)
       IN  /\ figures' = [figures EXCEPT !["update_bar_chart"] =
                   [args |-> <<countries_dropdown, years_slider,
                               depth_checklist>>,
                    out |-> ret.figure]]
           /\ df_earthquakes' = ret.df_earthquakes
    /\ UNCHANGED <<loaded, countries_dropdown, years_slider,
                   depth_checklist, magnitude_slider>>

Run_update_scatter_chart ==
    /\ "update_scatter_chart" \in pending
    /\ pending' = pending \ {"update_scatter_chart"}
    /\ figures' = [figures EXCEPT !["update_scatter_chart"] =
            [args |-> <<countries_dropdown, depth_checklist, years_slider>>,
             out |-> update_scatter_chart(df_earthquakes, countries_dropdown,
                                          depth_checklist, years_slider)]]
    /\ UNCHANGED <<df_earthquakes, loaded, countries_dropdown, years_slider,
                   depth_checklist, magnitude_slider>>

Run_update_pie_chart ==
    /\ "update_pie_chart" \in pending
    /\ pending' = pending \ {"update_pie_chart"}
    /\ figures' = [figures EXCEPT !["update_pie_chart"] =
            [args |-> <<years_slider, magnitude_slider>>,
             out |-> update_pie_chart(df_earthquakes, years_slider,
                                      magnitude_slider)]]
    /\ UNCHANGED <<df_earthquakes, loaded, countries_dropdown, years_slider,
                   depth_checklist, magnitude_slider>>

Next ==
    \/ ChangeCountry
    \/ ChangeYears
    \/ ToggleDepth
    \/ ChangeMagnitude
    \/ Run_update_bubble_map
    \/ Run_update_bar_chart
    \/ Run_update_scatter_chart
    \/ Run_update_pie_chart

Spec == Init /\ [][Next]_vars

---------------------------------------------------------------------------
\* One query applied once to one table: the table is drawn from the
\* sub-sequences of the catalogue, the arguments from the values the
\* controls can take.

NotCalled == \A cb \in Callbacks : figures[cb] = NoFigure

QueryInit ==
    /\ df_earthquakes \in Tables(NumRows)
    /\ loaded = df_earthquakes
    /\ Layout
    /\ pending = {}

Call_update_bubble_map ==
    /\ NotCalled
    /\ \E c \in dropdown_options(df_earthquakes), yr \in YearRanges :
            figures' = [figures EXCEPT !["update_bubble_map"] =
                [args |-> <<c, yr>>,
                 out |-> update_bubble_map(df_earthquakes, c, yr)]]
    /\ UNCHANGED <<df_earthquakes, loaded, countries_dropdown, years_slider,
                   depth_checklist, magnitude_slider, pending>>

Call_update_bar_chart ==
    /\ NotCalled
    /\ \E c \in dropdown_options(df_earthquakes), yr \in YearRanges,
          d \in DepthLists :
            LET ret == update_bar_chart(df_earthquakes, c, yr, d)
            IN  /\ figures' = [figures EXCEPT !["update_bar_chart"] =
                        [args |-> <<c, yr, d>>, out |-> ret.figure]]
                /\ df_earthquakes' = ret.df_earthquakes
    /\ UNCHANGED <<loaded, countries_dropdown, years_slider,
                   depth_checklist, magnitude_slider, pending>>

Call_update_scatter_chart ==
    /\ NotCalled
    /\ \E c \in dropdown_options(df_earthquakes), yr \in YearRanges,
          d \in DepthLists :
            figures' = [figures EXCEPT !["update_scatter_chart"] =
                [args |-> <<c, d, yr>>,
                 out |-> update_scatter_chart(df_earthquakes, c, d, yr)]]
    /\ UNCHANGED <<df_earthquakes, loaded, countries_dropdown, years_slider,
                   depth_checklist, magnitude_slider, pending>>

Call_update_pie_chart ==
    /\ NotCalled
    /\ \E yr \in YearRanges, m \in MagnitudeValues(df_earthquakes) :
            figures' = [figures EXCEPT !["update_pie_chart"] =
                [args |-> <<yr, m>>,
                 out |-> update_pie_chart(df_earthquakes, yr, m)]]
    /\ UNCHANGED <<df_earthquakes, loaded, countries_dropdown, years_slider,
                   depth_checklist, magnitude_slider, pending>>

QueryNext ==
    \/ Call_update_bubble_map
    \/ Call_update_bar_chart
    \/ Call_update_scatter_chart
    \/ Call_update_pie_chart

QuerySpec == QueryInit /\ [][QueryNext]_vars

---------------------------------------------------------------------------
\* What the properties below are stated in: the loaded table's records and
\* the arguments of the call a figure came from.

Records == Range(loaded.rows)

\* the country+year predicate of the queries
Passes(r, country, years) ==
    /\ years[1] <= r.date_time.year
    /\ r.date_time.year <= years[2]
    /\ (country = ALL_COUNTRIES \/ r.country = country)

Called(cb) == figures[cb] # NoFigure

Returned(cb) == Called(cb) /\ ~Raised(figures[cb].out)

NoDuplicates(rows) ==
    \A i, j \in DOMAIN rows : i # j => rows[i].index # rows[j].index

RECURSIVE SumCells(_)
SumCells(values) ==
    IF DOMAIN values = {} THEN 0
    ELSE LET c == CHOOSE c \in DOMAIN values : TRUE
         IN  values[c] + SumCells([d \in DOMAIN values \ {c} |-> values[d]])

Position(seq, x) == CHOOSE i \in DOMAIN seq : seq[i] = x

---------------------------------------------------------------------------
\* C1: the records update_bubble_map feeds to the map and to the line chart
\* are exactly the source records whose year lies in years_range (both ends
\* included) and whose country is the selected one, or any country when
\* "All Countries" is selected.
BubbleMapFilterExact ==
    Called("update_bubble_map") =>
        LET f == figures["update_bubble_map"]
            want == {r \in Records : Passes(r, f.args[1], f.args[2])}
        IN  /\ ~Raised(f.out)
            /\ Range(f.out.bubble_map.data) = want
            /\ Range(f.out.line_chart.data) = want

\* a call for one country and one year where the table also holds another
\* country's record of that year and the same country's record of another
BubbleMapFilterExactWitness ==
    /\ Returned("update_bubble_map")
    /\ LET f == figures["update_bubble_map"]
       IN  /\ f.args[1] # ALL_COUNTRIES
           /\ f.out.bubble_map.data # <<>>
           /\ \E r \in Records :
                 r.country # f.args[1] /\ Passes(r, ALL_COUNTRIES, f.args[2])
           /\ \E r \in Records :
                 r.country = f.args[1] /\ ~Passes(r, f.args[1], f.args[2])

\* C2: the points update_scatter_chart plots are exactly the records that
\* pass the country+year filter and whose depth_label is selected, each
\* once.
ScatterPointsExact ==
    Called("update_scatter_chart") =>
        LET f == figures["update_scatter_chart"]
        IN  /\ ~Raised(f.out)
            /\ Range(f.out.data) =
                 {r \in Records : /\ Passes(r, f.args[1], f.args[3])
                                  /\ r.depth_label \in Range(f.args[2])}
            /\ NoDuplicates(f.out.data)

\* a call where the year filter drops a row that lies before a plotted row
\* (so the rows' positions and their index labels disagree) and the depth
\* filter drops a row too
ScatterPointsExactWitness ==
    /\ Returned("update_scatter_chart")
    /\ LET f == figures["update_scatter_chart"]
       IN  /\ \E r \in Range(f.out.data), q \in Records :
                 q.index < r.index /\ ~Passes(q, f.args[1], f.args[3])
           /\ \E q \in Records :
                 /\ Passes(q, f.args[1], f.args[3])
                 /\ q.depth_label \notin Range(f.args[2])

\* C3: the counts of all the cells update_bar_chart returns add up to the
\* number of records that pass the country+year filter and whose
\* depth_label is selected.
BarCountsSum ==
    Called("update_bar_chart") =>
        LET f == figures["update_bar_chart"]
        IN  /\ ~Raised(f.out)
            /\ SumCells(f.out.values) =
                 Cardinality({r \in Records :
                                /\ Passes(r, f.args[1], f.args[2])
                                /\ r.depth_label \in Range(f.args[3])})

\* a chart with a cell counting two records, a missing cell, and a record
\* left out because its label is not selected
BarCountsSumWitness ==
    /\ Returned("update_bar_chart")
    /\ LET f == figures["update_bar_chart"]
       IN  /\ \E c \in DOMAIN f.out.values : f.out.values[c] >= 2
           /\ \E y \in Range(f.out.x), l \in Range(f.out.y) :
                 <<y, l>> \notin DOMAIN f.out.values
           /\ \E r \in Records :
                 /\ Passes(r, f.args[1], f.args[2])
                 /\ r.depth_label \notin Range(f.args[3])

\* the records the pie query counts
PieMatches(years, magnitude) ==
    {r \in Records : /\ Passes(r, ALL_COUNTRIES, years)
                     /\ r.magnitude >= magnitude}

\* C4: update_pie_chart returns min(5, n) slices, n the number of distinct
\* countries among the records with year in years_range and magnitude >=
\* the threshold, and each slice's count is the number of such records of
\* its country.
PieSliceCounts ==
    Called("update_pie_chart") =>
        LET f == figures["update_pie_chart"]
            matches == PieMatches(f.args[1], f.args[2])
        IN  /\ ~Raised(f.out)
            /\ Len(f.out.slices) =
                 Min(5, Cardinality({r.country : r \in matches}))
            /\ \A k \in DOMAIN f.out.slices :
                 f.out.slices[k].count =
                    Cardinality({r \in matches :
                                   r.country = f.out.slices[k].country})

\* more than five countries match, so that a group is cut off
PieSliceCountsWitness ==
    /\ Returned("update_pie_chart")
    /\ LET f == figures["update_pie_chart"]
           matches == PieMatches(f.args[1], f.args[2])
       IN  /\ Cardinality({r.country : r \in matches}) > 5
           /\ Len(f.out.slices) = 5

\* C5: the series of update_bar_chart's chart are the depth labels that are
\* selected and occur among the country+year-filtered records, in the order
\* Low, Mid, High whatever the order they were selected in; a (year, label)
\* pair no record has is a missing cell and no cell holds a zero.
BarSeriesColumns ==
    Called("update_bar_chart") =>
        LET f == figures["update_bar_chart"]
            rows == {r \in Records : Passes(r, f.args[1], f.args[2])}
            want == Range(f.args[3]) \cap {r.depth_label : r \in rows}
        IN  /\ ~Raised(f.out)
            /\ Range(f.out.y) = want
            /\ \A i, j \in DOMAIN f.out.y :
                 i < j => Position(<<"Low", "Mid", "High">>, f.out.y[i])
                            < Position(<<"Low", "Mid", "High">>, f.out.y[j])
            /\ \A y \in Range(f.out.x), l \in Range(f.out.y) :
                 <<y, l>> \in DOMAIN f.out.values <=>
                    \E r \in rows : r.date_time.year = y /\ r.depth_label = l
            /\ \A c \in DOMAIN f.out.values :
                 c[2] \in Range(f.out.y) /\ f.out.values[c] > 0

\* High was selected before Low, both get a column, Mid occurs in the data
\* but is not selected, and some (year, label) cell is missing
BarSeriesColumnsWitness ==
    /\ Returned("update_bar_chart")
    /\ LET f == figures["update_bar_chart"]
       IN  /\ f.args[3] = <<"High", "Low">>
           /\ f.out.y = <<"Low", "High">>
           /\ \E r \in Records :
                 Passes(r, f.args[1], f.args[2]) /\ r.depth_label = "Mid"
           /\ \E y \in Range(f.out.x), l \in Range(f.out.y) :
                 <<y, l>> \notin DOMAIN f.out.values

\* C6: no query ends in an error; with no matching record, or with no depth
\* label selected, each returns its empty result: no points, the bar
\* chart's shell with its title, no slices under the pie's title.
QueriesNeverRaise ==
    /\ \A cb \in Callbacks : Called(cb) => ~Raised(figures[cb].out)
    /\ Called("update_bubble_map") =>
          LET f == figures["update_bubble_map"]
          IN  (\A r \in Records : ~Passes(r, f.args[1], f.args[2])) =>
                 f.out.bubble_map.data = <<>> /\ f.out.line_chart.data = <<>>
    /\ Called("update_bar_chart") =>
          LET f == figures["update_bar_chart"]
          IN  (\/ f.args[3] = <<>>
               \/ \A r \in Records : ~Passes(r, f.args[1], f.args[2])) =>
                 /\ f.out.x = <<>> /\ f.out.y = <<>>
                 /\ DOMAIN f.out.values = {}
                 /\ f.out.title[2] = f.args[1]
                 /\ <<f.out.title[4], f.out.title[6]>> = f.args[2]
    /\ Called("update_scatter_chart") =>
          LET f == figures["update_scatter_chart"]
          IN  (\/ f.args[2] = <<>>
               \/ \A r \in Records : ~Passes(r, f.args[1], f.args[3])) =>
                 f.out.data = <<>>
    /\ Called("update_pie_chart") =>
          LET f == figures["update_pie_chart"]
          IN  /\ <<f.out.title[2], f.out.title[4]>> = f.args[1]
              /\ f.out.title[6] = f.args[2]
              /\ PieMatches(f.args[1], f.args[2]) = {} => f.out.slices = <<>>

\* the bar chart asked for a label no filtered record has, and got its shell
QueriesNeverRaiseWitness ==
    /\ Returned("update_bar_chart")
    /\ LET f == figures["update_bar_chart"]
       IN  /\ f.args[3] # <<>>
           /\ \E r \in Records : Passes(r, f.args[1], f.args[2])
           /\ \A r \in Records :
                 Passes(r, f.args[1], f.args[2]) =>
                    r.depth_label \notin Range(f.args[3])
           /\ f.out.x = <<>>

\* C10: the slices are the first five country groups in the grouping's key
\* order (the sorted country names), not the five with the highest counts.
PieSlicesInKeyOrder ==
    Called("update_pie_chart") =>
        LET f == figures["update_pie_chart"]
            countries == {r.country : r \in PieMatches(f.args[1], f.args[2])}
        IN  /\ ~Raised(f.out)
            /\ \A k \in DOMAIN f.out.slices :
                 /\ f.out.slices[k].country \in countries
                 /\ Cardinality({c \in countries :
                        Position(CountryNames, c)
                          < Position(CountryNames, f.out.slices[k].country)})
                      = k - 1

\* a country left out of the pie has more matching records than one in it
PieSlicesInKeyOrderWitness ==
    /\ Returned("update_pie_chart")
    /\ LET f == figures["update_pie_chart"]
           matches == PieMatches(f.args[1], f.args[2])
       IN  \E r \in matches, k \in DOMAIN f.out.slices :
              /\ \A j \in DOMAIN f.out.slices : f.out.slices[j].country # r.country
              /\ Cardinality({q \in matches : q.country = r.country})
                    > f.out.slices[k].count

---------------------------------------------------------------------------
\* Properties of the dashboard (Spec).

\* the figure cb would return on the table as loaded, for the arguments
\* its last run had
Recomputed(cb) ==
    LET a == figures[cb].args
    IN  CASE cb = "update_bubble_map" -> update_bubble_map(loaded, a[1], a[2])
          [] cb = "update_bar_chart" ->
                update_bar_chart(loaded, a[1], a[2], a[3]).figure
          [] cb = "update_scatter_chart" ->
                update_scatter_chart(loaded, a[1], a[2], a[3])
          [] cb = "update_pie_chart" -> update_pie_chart(loaded, a[1], a[2])

\* C7: after any sequence of runs of the four queries df_earthquakes is the
\* table that was loaded, rows and columns (no "year" column appears in
\* it), and every figure is what its query returns on the loaded table.
SourceTableNeverMutated ==
    /\ df_earthquakes = loaded
    /\ "year" \notin Range(df_earthquakes.columns)
    /\ \A cb \in Callbacks : Called(cb) => figures[cb].out = Recomputed(cb)

\* the bar chart has run more than once (its last run had other arguments
\* than the first) and drew bars, and nothing is left to run
SourceTableNeverMutatedWitness ==
    /\ pending = {}
    /\ Returned("update_bar_chart")
    /\ figures["update_bar_chart"].args
          # <<ALL_COUNTRIES, <<FirstYear, LastYear>>, <<"Low", "Mid", "High">>>>
    /\ figures["update_bar_chart"].out.x # <<>>
    /\ magnitude_slider # DefaultMagnitude

PieIndependentOfCountry ==
    (Called("update_pie_chart") /\ "update_pie_chart" \notin pending) =>
        LET f == figures["update_pie_chart"]
            matches == PieMatches(years_slider, magnitude_slider)
            countries == {r.country : r \in matches}
            first == {c \in countries :
                        Cardinality({b \in countries :
                            Position(CountryNames, b)
                              < Position(CountryNames, c)}) < 5}
        IN  /\ ~Raised(f.out)
            /\ f.out.title = <<"Top 5 earthquakes from", years_slider[1], "to",
                               years_slider[2], "with mag >=",
                               magnitude_slider>>
            /\ Len(f.out.slices) = Cardinality(first)
            /\ Range(f.out.slices) =
                 {[country |-> c,
                   count |-> Cardinality({r \in matches : r.country = c})] :
                     c \in first}

\* one country is selected, the pie was drawn after the years slider moved,
\* and it shows a slice of another country
PieIndependentOfCountryWitness ==
    /\ pending = {}
    /\ countries_dropdown # ALL_COUNTRIES
    /\ depth_checklist # <<"Low", "Mid", "High">>
    /\ years_slider # <<FirstYear, LastYear>>
    /\ Returned("update_pie_chart")
    /\ \E k \in DOMAIN figures["update_pie_chart"].out.slices :
          figures["update_pie_chart"].out.slices[k].country
             # countries_dropdown

=============================================================================
